---- MODULE Spec2Model ----
\* Model of src/src/video_stream.rs: the ingest thread of one camera stream
\* (start_video_stream), the recording workers it spawns
\* (start_video_recording), the control channel the operator UI writes to
\* and the shared preview image.
EXTENDS Integers, Sequences, FiniteSets, TLC

\* ---------------------------------------------------------------- bounds
MaxPackets == 3      \* packets the source delivers before it may only end
MaxCmds == 3         \* commands the UI sends on the control channel
MaxFaults == 1       \* non-nominal outcomes of source, codecs and file system
MaxClock == 180000   \* microseconds for which the clock is followed
ImgLen == 2          \* pixels of the preview image that are followed

\* ------------------------------------------------------- program constants
fps == 10
VidNumRange == 65536            \* vid_num: u16
sleep == 1000000 \div fps

\* ------------------------------------------------------------ value sets
None == 0                       \* Option::None of video_t
NoPts == -1                     \* packet.pts() == None
Blank == 0                      \* RgbaImage::new(512, 512): all zero
Garbage == -1                   \* contents of a frame buffer nothing wrote
\* A Start spawns a worker only after a Stop closed the session before it.
MaxWorkers == (MaxCmds + 1) \div 2
Workers == 1..MaxWorkers
NoPath == 0
VideoStream == 0                \* the first video stream, whose codec is used
OtherStream == 1                \* any other elementary stream of the source
NoStream == -1
Cameras == 0..2                 \* video0_image, video1_image, video2_image
PacketPts == {NoPts, 7, 3}      \* embedded timestamps: absent or irregular
ClockSteps == {0, 60000}        \* microseconds between two clock readings

\* ffmpeg::time::relative(): the readings a monotonic clock can give next.
Readings(last) == {last + d : d \in {e \in ClockSteps : last + e <= MaxClock}}

StartMsg(p) == [type |-> "Start", path |-> p]
StopMsg == [type |-> "Stop", path |-> NoPath]
PacketMsg(pts, frame) == [type |-> "Packet", pts |-> pts, frame |-> frame]
CloseMsg == [type |-> "Close", pts |-> 0, frame |-> 0]
NoMsg == [type |-> "Empty", path |-> NoPath]

\* Rust's integer division truncates towards zero.
TruncDiv(a, b) == IF a >= 0 THEN a \div b ELSE -((-a) \div b)

VARIABLES
    pc,            \* position of the ingest thread in its loop
    nread,         \* packets read from the source so far
    packet,        \* embedded pts of the packet of this iteration
    input_frame,   \* decoded frame of this iteration
    rgba_img,      \* the shared preview image
    record_r,      \* control channel: commands sent and not yet received
    ncmds,         \* commands the UI has sent
    msg,           \* what try_recv returned in this iteration
    video_t,       \* Option<Sender<RecordPacket>>: None or the worker it feeds
    start,         \* time origin of the recording
    now,           \* last reading of ffmpeg::time::relative()
    spawned,       \* workers spawned so far
    tx_alive,      \* per worker: the Sender of its channel still exists
    msgs,          \* per worker: its channel's queue
    wpc,           \* per worker: position of the worker thread
    out_path,      \* per worker: path it was started with
    rec_frame,     \* per worker: the converted frame buffer
    rec_format,    \* per worker: operations done on the output container
    encoded,       \* per worker: <<pts, frame received, frame encoded>> per encode call
    pending,       \* per worker: frames the encoder took and has not output
    origin,        \* per worker: clock reading when its Start was processed
    sent,          \* per worker: <<pts, clock reading, frame>> of frames sent
    faults,        \* non-nominal outcomes the environment has produced
    mutex,         \* holder of the Mutex around the preview image
    output_frame,  \* scaled frame of this iteration
    pixels,        \* per pixel of the preview image: the iteration that wrote it
    copy_at,       \* pixels ptr::copy has copied so far
    texture,       \* per pixel of the render thread's texture: as pixels
    rpc,           \* position of the render thread in its update handler
    read_at,       \* pixels the texture update has read so far
    caller,        \* what the caller of start_video_stream has got back
    handled,       \* commands try_recv has returned so far, oldest first
    stream,        \* elementary stream the packet of this iteration belongs to
    mission_time,  \* operator panel: MissionTime::Paused or MissionTime::Running
    vid_num,       \* operator panel: number put into the next recording's name
    nstarted,      \* Starts the panel has sent since the program was launched
    cam_lock,      \* per camera: holder of the Mutex around its preview image
    cam_pc,        \* per camera: position of its ingest thread
    cam_frames,    \* per camera: frames its ingest thread has published
    held           \* image locks the render thread holds in this update

ingest_vars == <<pc, nread, packet, stream, input_frame, rgba_img, msg,
                 video_t, start, now>>
ui_vars == <<record_r, ncmds>>
worker_vars == <<spawned, tx_alive, msgs, wpc, out_path, rec_frame, rec_format,
                 encoded, pending, origin, sent>>
render_vars == <<mutex, output_frame, pixels, copy_at, texture, rpc, read_at>>
panel_vars == <<mission_time, vid_num, nstarted>>
cam_vars == <<cam_lock, cam_pc, cam_frames, held>>
vars == <<ingest_vars, ui_vars, worker_vars, faults, render_vars, caller, handled,
          panel_vars, cam_vars>>

Panics == {"panic_open", "panic_decode", "panic_start_pts", "panic_record_pts"}
Exited == Panics \cup {"done"}

\* What start_video_stream and the thread set up before the loop (lines
\* 32-34, 62-70).
Constructed ==
    /\ nread = 0
    /\ packet = NoPts
    /\ input_frame = Garbage
    /\ rgba_img = Blank
    /\ record_r = <<>>
    /\ ncmds = 0
    /\ msg = NoMsg
    /\ video_t = None
    /\ start = 0
    /\ now = 0
    /\ spawned = 0
    /\ tx_alive = [w \in Workers |-> FALSE]
    /\ msgs = [w \in Workers |-> <<>>]
    /\ wpc = [w \in Workers |-> "unborn"]
    /\ out_path = [w \in Workers |-> NoPath]
    /\ rec_frame = [w \in Workers |-> Garbage]
    /\ rec_format = [w \in Workers |-> <<>>]
    /\ encoded = [w \in Workers |-> <<>>]
    /\ pending = [w \in Workers |-> 0]
    /\ origin = [w \in Workers |-> 0]
    /\ sent = [w \in Workers |-> <<>>]
    /\ faults = 0
    /\ mutex = "free"
    /\ output_frame = Garbage
    /\ pixels = [i \in 1..ImgLen |-> 0]
    /\ copy_at = 0
    /\ texture = [i \in 1..ImgLen |-> 0]
    /\ rpc = "update"
    /\ read_at = 0
    /\ handled = <<>>
    /\ stream = NoStream
    /\ cam_lock = [c \in Cameras |-> "free"]
    /\ cam_pc = [c \in Cameras |-> "outside"]
    /\ cam_frames = [c \in Cameras |-> 0]
    /\ held = 0

\* The stream is open and the thread is about to read its first packet.
Init ==
    /\ pc = "next"
    /\ caller = "handles"
    /\ mission_time = "Paused"
    /\ vid_num = 0
    /\ nstarted = 0
    /\ Constructed

\* An outcome other than the nominal one uses up one unit of the budget.
Allowed(nominal, n) == nominal \/ faults + n <= MaxFaults
Cost(nominal) == IF nominal THEN 0 ELSE 1

\* A worker is alive from its spawn until it has written its trailer (or
\* has panicked during setup).
Alive(w) == wpc[w] \in {"setup", "loop", "flush"}

\* ------------------------------------------------------ channel primitives
\* mpsc::Sender::send: queues the value unless the Receiver is gone.
ReceiverAlive(w) == wpc[w] \notin {"dead", "done"}
SendInFront(q, m) == <<m>> \o q
Send(q, m) == Append(q, m)
SendTo(w, m) == IF ReceiverAlive(w) THEN [msgs EXCEPT ![w] = Send(@, m)] ELSE msgs

\* Leaving the closure (end of the loop or a panic) drops video_t, as does
\* assigning None to it.
SenderLeaked == tx_alive
DropSender == IF video_t = None THEN tx_alive ELSE [tx_alive EXCEPT ![video_t] = FALSE]

\* ------------------------------------------------------------ operator UI
\* The caller owns the sending half of the control channel and may send
\* any command at any time; the k-th command, if a Start, names file k.
UiSend ==
    /\ ncmds < MaxCmds
    /\ \E m \in {StartMsg(ncmds + 1), StopMsg} :
        record_r' = Send(record_r, m)
    /\ ncmds' = ncmds + 1
    /\ UNCHANGED <<panel_vars, cam_vars, handled, caller, render_vars, ingest_vars, worker_vars, faults>>

\* ---------------------------------------------------------- ingest thread
\* packet, stream, input_frame and the received message live for one iteration.
ResetIteration ==
    /\ packet' = NoPts
    /\ stream' = NoStream
    /\ input_frame' = Garbage
    /\ msg' = NoMsg

\* What decoder.decode leaves in the freshly allocated input_frame (lines
\* 73-76): the k-th packet's picture, or nothing when the decoder buffers.
Decoded(r, k) == IF r = "frame" THEN k ELSE Garbage

\* decoder.decode(..).unwrap() (line 76): where the thread is afterwards.
AfterDecode(r) == IF r = "error" THEN "panic_decode" ELSE "publish"

\* format_context.packets() yields the next packet of the source, of
\* whichever elementary stream, and the packet is decoded: the `stream` of
\* the pair is never looked at (lines 72-76).
NextPacket ==
    /\ pc = "next"
    /\ nread < MaxPackets
    /\ \E p \in PacketPts, r \in {"frame", "nothing", "error"},
          s \in {VideoStream, OtherStream} :
        LET n == Cost(p # NoPts) +
                 (IF s = VideoStream THEN Cost(r = "frame") ELSE 1)
        IN /\ Allowed(n = 0, n)
           /\ faults' = faults + n
           /\ packet' = p
           /\ stream' = s
           /\ input_frame' = Decoded(r, nread + 1)
           /\ pc' = AfterDecode(r)
           /\ tx_alive' = IF AfterDecode(r) \in Panics THEN DropSender ELSE tx_alive
    /\ nread' = nread + 1
    /\ UNCHANGED <<panel_vars, cam_vars, handled, caller, render_vars, rgba_img, msg, video_t, start, now, ui_vars,
                   spawned, msgs, wpc, out_path, rec_frame, rec_format, encoded,
                   pending, origin, sent>>

\* The packet iterator ends (end of stream, connection dropped): the loop
\* is left and the closure returns, dropping video_t (lines 72, 130-131).
SourceEnds ==
    /\ pc = "next"
    /\ pc' = "done"
    /\ tx_alive' = DropSender
    /\ UNCHANGED <<panel_vars, cam_vars, handled, caller, render_vars, nread, packet, stream, input_frame, rgba_img, msg, video_t, start,
                   now, ui_vars, spawned, msgs, wpc, out_path,
                   rec_frame, rec_format, encoded, pending, origin, sent, faults>>

\* What frame::Video::new(Pixel::RGBA, 512, 512) (line 74) hands out: a
\* buffer nothing has written, holding arbitrary bytes, zeroed pages, or
\* what the buffer freed at the end of the previous iteration held, which
\* is the image published then.
Unwritten(img) == {Garbage, Blank, img}

\* sws_context.run(&input_frame, &mut output_frame) (lines 78-80): an
\* error is only printed and leaves output_frame as it was allocated.
Scaled(ok, frame, fresh) == IF ok THEN frame ELSE fresh

\* The copy of lines 83-91 stands in the loop body under no condition.
PublishesWhenIdle == video_t = None
Publishes == TRUE

\* The frame is scaled and output_frame copied into rgba_img under the lock
\* (lines 78-91).
Publish ==
    /\ pc = "publish"
    /\ \E ok \in BOOLEAN : \E fresh \in IF ok THEN {Garbage} ELSE Unwritten(rgba_img) :
        /\ Allowed(ok, 1)
        /\ faults' = faults + Cost(ok)
        /\ rgba_img' = IF Publishes THEN Scaled(ok, input_frame, fresh) ELSE rgba_img
    /\ pixels' = IF Publishes THEN [i \in 1..ImgLen |-> nread] ELSE pixels
    /\ pc' = "poll"
    /\ UNCHANGED <<panel_vars, cam_vars, handled, caller, nread, packet, stream, input_frame, msg, video_t, start, now,
                   ui_vars, worker_vars, mutex, output_frame, copy_at, texture,
                   rpc, read_at>>

\* video_t.is_none() (line 98).
StartUnguarded == TRUE
CanStart == video_t = None

\* start = ffmpeg::time::relative() (line 100).
OriginKept(t) == start
NewOrigin(t) == t

\* try_recv returned Start(p) (lines 96-105).
PollStart(p) ==
    IF CanStart
    THEN IF packet = NoPts
         THEN \* packet.pts().unwrap() panics (line 99)
              /\ pc' = "panic_start_pts"
              /\ tx_alive' = DropSender
              /\ UNCHANGED <<video_t, start, now, spawned, msgs,
                             wpc, out_path, origin>>
         ELSE \E t \in Readings(now) :
              LET w == spawned + 1
              IN /\ now' = t
                 /\ start' = NewOrigin(t)
                 /\ spawned' = w
                 /\ wpc' = [wpc EXCEPT ![w] = "setup"]
                 /\ out_path' = [out_path EXCEPT ![w] = p]
                 /\ origin' = [origin EXCEPT ![w] = t]
                 /\ msgs' = [msgs EXCEPT ![w] = <<>>]
                 /\ tx_alive' = [tx_alive EXCEPT ![w] = TRUE]
                 /\ video_t' = w
                 /\ pc' = "record"
    ELSE /\ pc' = "record"
         /\ UNCHANGED <<video_t, start, now, spawned, msgs, wpc,
                        out_path, origin, tx_alive>>

\* Where the thread is after the Stop arm (lines 106-111): `if let Some`
\* skips the send when there is no session, so nothing can fail.
AfterStopUnwrapped == IF video_t = None THEN "panic_stop" ELSE "record"
AfterStop == "record"

\* The Stop arm (lines 106-111) makes no call that waits for the worker:
\* there is no JoinHandle to join and nothing is received from it.
StopJoins == IF video_t = None THEN TRUE ELSE ~Alive(video_t)
StopReturns == TRUE

\* try_recv returned Stop (lines 106-111): Close is sent to the session's
\* worker, if any, and assigning None drops the Sender.
PollStop ==
    /\ StopReturns
    /\ msgs' = IF video_t # None THEN SendTo(video_t, CloseMsg) ELSE msgs
    /\ tx_alive' = DropSender
    /\ video_t' = None
    /\ pc' = AfterStop
    /\ UNCHANGED <<start, now, spawned, wpc, out_path, origin>>

\* What is left in the channel after try_recv returned a command: `if let`
\* at line 94 calls try_recv once, so only that command is taken out.
AfterRecvDrained(q) == <<>>
AfterRecv(q) == Tail(q)

\* record_r.try_recv() and the match on its result (lines 94-113).
Poll ==
    /\ pc = "poll"
    /\ IF record_r = <<>>
       THEN /\ msg' = NoMsg
            /\ pc' = "record"
            /\ UNCHANGED <<record_r, handled, video_t, start, now, spawned,
                           msgs, wpc, out_path, origin, tx_alive>>
       ELSE /\ msg' = Head(record_r)
            /\ record_r' = AfterRecv(record_r)
            /\ handled' = Append(handled, Head(record_r))
            /\ IF Head(record_r).type = "Start"
               THEN PollStart(Head(record_r).path)
               ELSE PollStop
    /\ UNCHANGED <<panel_vars, cam_vars, caller, render_vars, nread, packet, stream, input_frame, rgba_img, ncmds,
                   rec_frame, rec_format, encoded, pending, sent, faults>>

\* pts of a recorded frame (line 118); lines 116-126 keep the variants that
\* were tried before, among them the packet's own timestamp.
FramePtsOfPacket(t) == packet
FramePts(t) == TruncDiv(t - start, sleep)

\* Where the thread is after video_t.send(..) (line 128): the Result is
\* dropped, so a send to a worker that is gone is not noticed.
AfterSendUnwrapped(w) == IF ReceiverAlive(w) THEN "next" ELSE "panic_send"
AfterSend(w) == "next"

\* The recording branch at the end of the iteration (lines 115-129).
Record ==
    /\ pc = "record"
    /\ IF video_t = None
       THEN /\ pc' = "next"
            /\ ResetIteration
            /\ UNCHANGED <<now, msgs, sent, tx_alive>>
       ELSE \E t \in Readings(now) :
            LET pts == FramePts(t)
            IN /\ now' = t
               /\ IF packet = NoPts
                  THEN \* packet.pts().unwrap() in the println (line 127)
                       /\ pc' = "panic_record_pts"
                       /\ tx_alive' = DropSender
                       /\ UNCHANGED <<packet, stream, input_frame, msg, msgs, sent>>
                  ELSE /\ msgs' = SendTo(video_t, PacketMsg(pts, input_frame))
                       /\ sent' = [sent EXCEPT ![video_t] =
                                       Append(@, <<pts, t, input_frame>>)]
                       /\ pc' = AfterSend(video_t)
                       /\ ResetIteration
                       /\ UNCHANGED tx_alive
    /\ UNCHANGED <<panel_vars, cam_vars, handled, caller, render_vars, nread, rgba_img, video_t, start, ui_vars,
                   spawned, wpc, out_path, rec_frame, rec_format, encoded,
                   pending, origin, faults>>

Ingest == NextPacket \/ SourceEnds \/ Publish \/ Poll \/ Record

\* -------------------------------------------------------- recording worker
\* format::output, add_stream, encoder, open_as, converter and write_header
\* (lines 158-183): each is unwrapped, so a failure panics the worker, which
\* drops its Receiver; on success the header is in the container.
WorkerSetup(w) ==
    /\ wpc[w] = "setup"
    /\ \E r \in {"ok", "open_failed", "header_failed"} :
        /\ Allowed(r = "ok", 1)
        /\ faults' = faults + Cost(r = "ok")
        /\ wpc' = [wpc EXCEPT ![w] = IF r = "ok" THEN "loop" ELSE "dead"]
        /\ msgs' = IF r = "ok" THEN msgs ELSE [msgs EXCEPT ![w] = <<>>]
        /\ rec_format' = IF r = "ok" THEN [rec_format EXCEPT ![w] = <<"header">>]
                         ELSE rec_format
    /\ UNCHANGED <<panel_vars, cam_vars, handled, caller, render_vars, ingest_vars, ui_vars, spawned, tx_alive, out_path, rec_frame,
                   encoded, pending, origin, sent>>

\* Where the worker goes when it receives Close (lines 211-213).
AfterCloseReturn == "done"
AfterClose == "flush"

\* What the worker writes to the container after an encode call (lines
\* 200-209): Ok(_) writes rec_packet whether or not the encoder filled it.
Written(enc) ==
    IF enc = "error" THEN <<>>
    ELSE IF enc = "packet" THEN <<"packet">> ELSE <<"empty_packet">>

\* One turn of `while let Ok(msg) = msgs.recv()` (lines 191-215).
WorkerRecv(w) ==
    /\ wpc[w] = "loop"
    /\ IF msgs[w] # <<>>
       THEN LET m == Head(msgs[w])
            IN /\ msgs' = [msgs EXCEPT ![w] = Tail(@)]
               /\ IF m.type = "Packet"
                  THEN \E conv \in BOOLEAN, enc \in {"packet", "nothing", "error"} :
                       LET f == IF conv THEN m.frame ELSE rec_frame[w]
                           n == Cost(conv) + Cost(enc = "packet")
                       IN /\ Allowed(n = 0, n)
                          /\ faults' = faults + n
                          /\ rec_frame' = [rec_frame EXCEPT ![w] = f]
                          /\ encoded' = [encoded EXCEPT ![w] =
                                             Append(@, <<m.pts, m.frame, f>>)]
                          /\ pending' = [pending EXCEPT ![w] =
                                             IF enc = "nothing" THEN @ + 1 ELSE @]
                          /\ rec_format' = [rec_format EXCEPT ![w] = @ \o Written(enc)]
                          /\ UNCHANGED wpc
                  ELSE /\ wpc' = [wpc EXCEPT ![w] = AfterClose]
                       /\ UNCHANGED <<rec_frame, encoded, pending, rec_format, faults>>
       ELSE \* recv() fails once the queue is empty and the Sender is gone
            /\ ~tx_alive[w]
            /\ wpc' = [wpc EXCEPT ![w] = "flush"]
            /\ UNCHANGED <<msgs, rec_frame, encoded, pending, rec_format, faults>>
    /\ UNCHANGED <<panel_vars, cam_vars, handled, caller, render_vars, ingest_vars, ui_vars, spawned, tx_alive, out_path, origin, sent>>

\* One turn of `while let Ok(true) = rec_video.flush(..)` that yields a
\* packet (lines 217-221).
WorkerFlush(w) ==
    /\ wpc[w] = "flush"
    /\ pending[w] > 0
    /\ pending' = [pending EXCEPT ![w] = @ - 1]
    /\ rec_format' = [rec_format EXCEPT ![w] = Append(@, "drained_packet")]
    /\ UNCHANGED <<panel_vars, cam_vars, handled, caller, render_vars, ingest_vars, ui_vars, spawned, tx_alive, msgs, wpc, out_path,
                   rec_frame, encoded, origin, sent, faults>>

\* flush yields no more packet: rec_format.write_trailer() and the end of
\* the thread (lines 217, 223-225).
WorkerTrailer(w) ==
    /\ wpc[w] = "flush"
    /\ pending[w] = 0
    /\ rec_format' = [rec_format EXCEPT ![w] = Append(@, "trailer")]
    /\ wpc' = [wpc EXCEPT ![w] = "done"]
    /\ msgs' = [msgs EXCEPT ![w] = <<>>]
    /\ UNCHANGED <<panel_vars, cam_vars, handled, caller, render_vars, ingest_vars, ui_vars, spawned, tx_alive, out_path, rec_frame,
                   encoded, pending, origin, sent, faults>>

Worker(w) == WorkerSetup(w) \/ WorkerRecv(w) \/ WorkerFlush(w) \/ WorkerTrailer(w)

Next == UiSend \/ Ingest \/ \E w \in Workers : Worker(w)

Spec == Init /\ [][Next]_vars

\* The threads are scheduled by the operating system: a worker that can take
\* a step takes it, and so does the ingest thread once it holds a packet.
\* Nothing forces the source to deliver or the operator to act.
FairSpec ==
    /\ Spec
    /\ \A w \in Workers : WF_vars(Worker(w))
    /\ WF_vars(Publish \/ Poll \/ Record)

\* FairSpec with a source that does not stall: the blocking read behind
\* format_context.packets() (line 72) returns in the end, with the next
\* packet or with the end of the stream.
LiveSpec ==
    /\ FairSpec
    /\ WF_vars(NextPacket \/ SourceEnds)

\* ------------------------------------------- preview image under its lock
\* The steps of lines 78-91 one by one, next to the render thread of
\* stereo.rs, which reads the same image at its own pace.

\* Mutex::lock (video_stream.rs line 85, stereo.rs line 153) returns once no
\* other thread holds the lock.
LockIgnored == TRUE
LockFree == mutex = "free"

\* The frame is scaled (lines 78-80) and the lock taken (line 85).
PublishLock ==
    /\ pc = "publish"
    /\ LockFree
    /\ \E ok \in BOOLEAN : \E fresh \in IF ok THEN {Garbage} ELSE Unwritten(rgba_img) :
        /\ Allowed(ok, 1)
        /\ faults' = faults + Cost(ok)
        /\ output_frame' = Scaled(ok, input_frame, fresh)
    /\ mutex' = "ingest"
    /\ copy_at' = 0
    /\ pc' = "copy"
    /\ UNCHANGED <<panel_vars, cam_vars, handled, caller, nread, packet, stream, input_frame, rgba_img, msg, video_t, start, now,
                   ui_vars, worker_vars, pixels, texture, rpc, read_at>>

\* ptr::copy moves the next pixel of output_frame into the image (lines
\* 86-90).
PublishCopy ==
    /\ pc = "copy"
    /\ copy_at < ImgLen
    /\ pixels' = [pixels EXCEPT ![copy_at + 1] = nread]
    /\ copy_at' = copy_at + 1
    /\ UNCHANGED <<panel_vars, cam_vars, handled, caller, ingest_vars, ui_vars, worker_vars, faults, mutex, output_frame,
                   texture, rpc, read_at>>

\* The copy is complete and the guard goes out of scope (line 91).
PublishUnlock ==
    /\ pc = "copy"
    /\ copy_at = ImgLen
    /\ rgba_img' = output_frame
    /\ mutex' = "free"
    /\ pc' = "poll"
    /\ UNCHANGED <<panel_vars, cam_vars, handled, caller, nread, packet, stream, input_frame, msg, video_t, start, now, ui_vars,
                   worker_vars, faults, output_frame, pixels, copy_at, texture,
                   rpc, read_at>>

\* video0_image.lock().unwrap() in the update handler (stereo.rs line 153).
RenderLock ==
    /\ rpc = "update"
    /\ LockFree
    /\ mutex' = "render"
    /\ read_at' = 0
    /\ rpc' = "read"
    /\ UNCHANGED <<panel_vars, cam_vars, handled, caller, ingest_vars, ui_vars, worker_vars, faults, output_frame,
                   pixels, copy_at, texture>>

\* vid_textures[0].update reads the next pixel of the image (stereo.rs line
\* 154).
RenderRead ==
    /\ rpc = "read"
    /\ read_at < ImgLen
    /\ texture' = [texture EXCEPT ![read_at + 1] = pixels[read_at + 1]]
    /\ read_at' = read_at + 1
    /\ UNCHANGED <<panel_vars, cam_vars, handled, caller, ingest_vars, ui_vars, worker_vars, faults, mutex, output_frame,
                   pixels, copy_at, rpc>>

\* The texture is updated and the guard dropped when the handler returns
\* (stereo.rs line 161).
RenderUnlock ==
    /\ rpc = "read"
    /\ read_at = ImgLen
    /\ mutex' = "free"
    /\ rpc' = "update"
    /\ UNCHANGED <<panel_vars, cam_vars, handled, caller, ingest_vars, ui_vars, worker_vars, faults, output_frame,
                   pixels, copy_at, texture, read_at>>

RenderNext ==
    \/ NextPacket \/ SourceEnds \/ PublishLock \/ PublishCopy \/ PublishUnlock
    \/ Poll \/ Record
    \/ RenderLock \/ RenderRead \/ RenderUnlock

RenderSpec == Init /\ [][RenderNext]_vars

\* ------------------------------------------------------ starting a stream
\* The call of start_video_stream: the image and the texture are made, the
\* thread is spawned and both handles are returned (lines 30-41, 131-133);
\* the function has no other return value.
StartStream ==
    /\ pc = "unstarted"
    /\ caller = "calling"
    /\ pc' = "open"
    /\ caller' = "handles"
    /\ UNCHANGED <<panel_vars, cam_vars, handled, nread, packet, stream, input_frame, rgba_img, msg, video_t, start, now,
                   ui_vars, worker_vars, faults, render_vars>>

\* Where the thread is after format::input, the search for a video stream,
\* decoder::find, decoder().video() and scaling::Context::get, each
\* unwrapped or expected (lines 44-59).
AfterOpen(r) == IF r = "ok" THEN "next" ELSE "panic_open"

\* The thread opens the source (lines 44-59).
OpenSource ==
    /\ pc = "open"
    /\ \E r \in {"ok", "connect_failed", "no_video_stream", "no_decoder"} :
        /\ Allowed(r = "ok", 1)
        /\ faults' = faults + Cost(r = "ok")
        /\ pc' = AfterOpen(r)
    /\ UNCHANGED <<panel_vars, cam_vars, handled, nread, packet, stream, input_frame, rgba_img, msg, video_t, start, now,
                   ui_vars, worker_vars, render_vars, caller>>

StartInit ==
    /\ pc = "unstarted"
    /\ caller = "calling"
    /\ mission_time = "Paused"
    /\ vid_num = 0
    /\ nstarted = 0
    /\ Constructed

StartNext == StartStream \/ OpenSource \/ Next

StartSpec == StartInit /\ [][StartNext]_vars

\* ---------------------------------------------------------- operator panel
\* The mission buttons of stereo_ui.rs (nav_ui.rs has the same two), seen by
\* one of the three streams they command.

\* self.vid_num += 1 on a u16 (stereo_ui.rs line 227): past the largest value
\* a release build wraps to 0 and a debug build panics.
Overflows(v) == v + 1 >= VidNumRange
Incremented(v) == (v + 1) % VidNumRange

\* The Start/Pause button (stereo_ui.rs lines 218-238): when paused it
\* starts the clock and sends Start with the name numbered vid_num, when
\* running it pauses the clock and sends Stop.
ClickStartPause ==
    /\ ncmds < MaxCmds
    /\ mission_time \in {"Paused", "Running"}
    /\ ncmds' = ncmds + 1
    /\ IF mission_time = "Paused"
       THEN /\ record_r' = Send(record_r, StartMsg(vid_num))
            /\ nstarted' = nstarted + 1
            /\ \E panics \in IF Overflows(vid_num) THEN BOOLEAN ELSE {FALSE} :
                 IF panics
                 THEN mission_time' = "Crashed" /\ vid_num' = vid_num
                 ELSE mission_time' = "Running" /\ vid_num' = Incremented(vid_num)
       ELSE /\ record_r' = Send(record_r, StopMsg)
            /\ mission_time' = "Paused"
            /\ UNCHANGED <<vid_num, nstarted>>
    /\ UNCHANGED <<ingest_vars, worker_vars, faults, render_vars, caller, handled,
                   cam_vars>>

\* The Reset button (stereo_ui.rs lines 241-250): the clock is set to a
\* paused zero; nothing is sent to the streams.
ClickReset ==
    /\ mission_time \in {"Paused", "Running"}
    /\ mission_time' = "Paused"
    /\ UNCHANGED <<vid_num, nstarted, ingest_vars, ui_vars, worker_vars, faults,
                   render_vars, caller, handled, cam_vars>>

\* The panel at the start of the part of a run that is followed: fresh, or
\* after as many recordings as vid_num can count, each started and paused
\* again, with all their commands handled and their workers finished.
PanelInit ==
    /\ pc = "next"
    /\ caller = "handles"
    /\ mission_time = "Paused"
    /\ vid_num \in {0, VidNumRange - 1}
    /\ nstarted = vid_num
    /\ Constructed

PanelNext ==
    ClickStartPause \/ ClickReset \/ Ingest \/ \E w \in Workers : Worker(w)

PanelSpec == PanelInit /\ [][PanelNext]_vars

\* ------------------------------------------------ three cameras, one reader
\* stereo.rs starts three streams, each with an image and a Mutex of its
\* own, and its update handler reads the three images.

\* A MutexGuard going out of scope (video_stream.rs line 91, stereo.rs line
\* 161) unlocks its Mutex.
GuardKept(holder) == holder
GuardDropped(holder) == "free"

\* All that one stream and the panel keep: no step of the locks touches it.
stream_vars == <<ingest_vars, ui_vars, worker_vars, faults, render_vars, caller,
                 handled, panel_vars>>

\* The ingest thread of camera c reaches thread_rgba_img.lock() (line 85).
CamRequest(c) ==
    /\ cam_pc[c] = "outside"
    /\ cam_frames[c] < MaxPackets
    /\ cam_pc' = [cam_pc EXCEPT ![c] = "waiting"]
    /\ UNCHANGED <<cam_lock, cam_frames, held, stream_vars>>

\* lock() returns in the ingest thread of camera c: only the Mutex of its
\* own image is asked for.
CamAcquire(c) ==
    /\ cam_pc[c] = "waiting"
    /\ cam_lock[c] = "free"
    /\ cam_lock' = [cam_lock EXCEPT ![c] = "ingest"]
    /\ cam_pc' = [cam_pc EXCEPT ![c] = "copying"]
    /\ UNCHANGED <<cam_frames, held, stream_vars>>

\* The copy is done and the block of lines 83-91 ends.
CamRelease(c) ==
    /\ cam_pc[c] = "copying"
    /\ cam_lock' = [cam_lock EXCEPT ![c] = GuardDropped(@)]
    /\ cam_pc' = [cam_pc EXCEPT ![c] = "outside"]
    /\ cam_frames' = [cam_frames EXCEPT ![c] = @ + 1]
    /\ UNCHANGED <<held, stream_vars>>

\* The update handler takes the next image's lock: video0_image,
\* video1_image, video2_image in this order (stereo.rs lines 153, 156, 159),
\* keeping the guards it already has.
UpdateLock ==
    /\ held < 3
    /\ cam_lock[held] = "free"
    /\ cam_lock' = [cam_lock EXCEPT ![held] = "render"]
    /\ held' = held + 1
    /\ UNCHANGED <<cam_pc, cam_frames, stream_vars>>

\* The update closure ends (stereo.rs line 161) and its three guards are
\* dropped.
UpdateEnd ==
    /\ held = 3
    /\ cam_lock' = [c \in Cameras |->
                       IF cam_lock[c] = "render" THEN GuardDropped(cam_lock[c])
                       ELSE cam_lock[c]]
    /\ held' = 0
    /\ UNCHANGED <<cam_pc, cam_frames, stream_vars>>

CamNext ==
    \/ \E c \in Cameras : CamRequest(c) \/ CamAcquire(c) \/ CamRelease(c)
    \/ UpdateLock
    \/ UpdateEnd

\* A thread blocked in lock() is woken when the Mutex is unlocked, and a
\* thread that holds a lock runs on until it drops it.
CamSpec ==
    /\ Init
    /\ [][CamNext]_vars
    /\ \A c \in Cameras : SF_vars(CamAcquire(c)) /\ WF_vars(CamRelease(c))
    /\ SF_vars(UpdateLock)
    /\ WF_vars(UpdateEnd)

\* ------------------------------------------------------------- properties
Last(q) == q[Len(q)]

\* The step of the ingest thread that handles the command at the head of
\* the control channel.
Handles(type) ==
    /\ pc = "poll"
    /\ pc' # "poll"
    /\ record_r # <<>>
    /\ Head(record_r).type = type

\* C1: processing a Start while a recording session is open changes
\* nothing: no worker is spawned, the open session keeps its path and its
\* time origin, and exactly one session is active afterwards.
C1_StartWhileRecordingIgnored ==
    [][Handles("Start") /\ video_t # None =>
          /\ video_t' = video_t
          /\ spawned' = spawned
          /\ wpc' = wpc
          /\ out_path' = out_path
          /\ start' = start
          /\ origin' = origin
          /\ msgs' = msgs
          /\ tx_alive' = tx_alive
          /\ {w \in Workers : tx_alive'[w]} = {video_t}
          /\ pc' = "record"]_vars

\* A Start naming another file than the open session's has just been
\* handled and the session is still the one that was open.
C1_Witness ==
    /\ pc = "record"
    /\ msg.type = "Start"
    /\ video_t # None
    /\ out_path[video_t] # msg.path
    /\ spawned = 1

C3_StopWhileIdleIgnored ==
    [][/\ Handles("Stop") /\ video_t = None =>
            /\ video_t' = None
            /\ msgs' = msgs
            /\ tx_alive' = tx_alive
            /\ wpc' = wpc
            /\ pc' = "record"
       /\ pc = "record" /\ pc' # pc /\ msg.type = "Stop" =>
            /\ video_t' = None
            /\ msgs' = msgs
            /\ pc' = "next"]_vars

\* A Stop has been handled although no session was ever opened.
C3_Witness ==
    /\ pc = "record"
    /\ msg.type = "Stop"
    /\ spawned = 0
    /\ video_t = None

\* C4: the supervisor follows the two-state machine: a Start handled in
\* Idle spawns one worker bound to the given path and leads to Recording, a
\* Stop handled in Recording sends one Close, drops the Sender and leads to
\* Idle, the two other combinations change nothing, and no other step of
\* the ingest loop changes the state.
C4_SupervisorStateMachine ==
    [][pc' # pc =>
          IF pc = "poll" /\ record_r # <<>>
          THEN LET m == Head(record_r)
               IN /\ m.type = "Start" /\ video_t = None =>
                       /\ spawned' = spawned + 1
                       /\ video_t' = spawned'
                       /\ wpc'[video_t'] = "setup"
                       /\ out_path'[video_t'] = m.path
                       /\ tx_alive'[video_t']
                  /\ m.type = "Start" /\ video_t # None =>
                       /\ video_t' = video_t
                       /\ spawned' = spawned
                  /\ m.type = "Stop" /\ video_t # None =>
                       /\ video_t' = None
                       /\ spawned' = spawned
                       /\ ~tx_alive'[video_t]
                       /\ ReceiverAlive(video_t) =>
                              msgs'[video_t] = Append(msgs[video_t], CloseMsg)
                  /\ m.type = "Stop" /\ video_t = None =>
                       /\ video_t' = None
                       /\ spawned' = spawned
                       /\ msgs' = msgs
          ELSE /\ video_t' = video_t
               /\ spawned' = spawned]_vars

\* C5: a decode error on one packet never terminates the ingest loop.
C5_DecodeErrorKeepsLoop == pc # "panic_decode"

Rank(op) ==
    CASE op = "header" -> 0
      [] op \in {"packet", "empty_packet"} -> 1
      [] op = "drained_packet" -> 2
      [] op = "trailer" -> 3

Ordered(log) ==
    /\ log # <<>> => log[1] = "header"
    /\ \A i, j \in 1..Len(log) :
          i < j => /\ Rank(log[i]) <= Rank(log[j])
                   /\ Rank(log[i]) = Rank(log[j]) => Rank(log[i]) \in {1, 2}

\* C7: in every worker the container sees the header, then the packets of
\* received frames, then the packets drained from the encoder, then the
\* trailer once and nothing after it; the worker ends only with the trailer
\* written and the encoder empty; and both a queued Close and a channel
\* whose Sender is gone lead to the drain and the trailer.
C7_ContainerOrder ==
    \A w \in Workers :
        /\ [](/\ Ordered(rec_format[w])
              /\ wpc[w] = "done" <=>
                    (rec_format[w] # <<>> /\ Last(rec_format[w]) = "trailer")
              /\ wpc[w] = "done" => pending[w] = 0)
        /\ (wpc[w] = "loop" /\ msgs[w] # <<>> /\ Last(msgs[w]) = CloseMsg)
              ~> (wpc[w] = "done")
        /\ (wpc[w] = "loop" /\ video_t = w /\ pc \in Exited)
              ~> (wpc[w] = "done")

\* A worker has written packets in its receive loop, drained one more from
\* the encoder and finished.
C7_Witness ==
    \E w \in Workers :
        /\ wpc[w] = "done"
        /\ \E i \in 1..Len(rec_format[w]) : rec_format[w][i] = "packet"
        /\ \E i \in 1..Len(rec_format[w]) : rec_format[w][i] = "drained_packet"

\* pts and picture of the frames sent to, fed to the encoder by, and still
\* queued for a worker.
SentFrames(w) == [i \in 1..Len(sent[w]) |-> <<sent[w][i][1], sent[w][i][3]>>]
FedFrames(w) == [i \in 1..Len(encoded[w]) |-> <<encoded[w][i][1], encoded[w][i][2]>>]
QueuedFrames(w) ==
    LET q == SelectSeq(msgs[w], LAMBDA m : m.type = "Packet")
    IN [i \in 1..Len(q) |-> <<q[i].pts, q[i].frame>>]
SameSeq(a, b) == Len(a) = Len(b) /\ \A i \in 1..Len(a) : a[i] = b[i]

\* C8: all frames sent to a session are fed to the encoder, in the order
\* sent, before the worker drains and writes the trailer; Close is never
\* queued in front of a frame and no queued frame is thrown away.
C8_AllSentFramesEncoded ==
    \A w \in Workers :
        /\ \A i \in 1..(Len(msgs[w]) - 1) : msgs[w][i].type = "Packet"
        /\ wpc[w] \in {"setup", "loop"} =>
              SameSeq(SentFrames(w), FedFrames(w) \o QueuedFrames(w))
        /\ wpc[w] \in {"flush", "done"} => SameSeq(SentFrames(w), FedFrames(w))

\* A session was closed by Stop after two frames were sent to it, and its
\* worker has finished.
C8_Witness ==
    \E w \in Workers :
        /\ wpc[w] = "done"
        /\ Len(sent[w]) >= 2
        /\ w # video_t
        /\ pc \notin Exited

\* C9: within one session the pts of the frames sent are non-decreasing in
\* send order whenever the clock readings are.
C9_PtsMonotonic ==
    \A w \in Workers : \A i, j \in 1..Len(sent[w]) :
        i < j /\ sent[w][i][2] <= sent[w][j][2] => sent[w][i][1] <= sent[w][j][1]

\* A session has sent a frame with a larger pts after one with a smaller.
C9_Witness ==
    \E w \in Workers :
        /\ Len(sent[w]) >= 2
        /\ sent[w][1][1] < sent[w][2][1]

\* C10: the pts of every frame sent is the clock reading taken for it minus
\* the reading taken when its session's Start was handled, divided by the
\* frame interval of 1_000_000/10 microseconds, whatever timestamp the
\* packet carries; it is never negative; and the origin in use is always
\* the one of the open session.
C10_PtsFromSessionClock ==
    /\ \A w \in Workers : \A i \in 1..Len(sent[w]) :
          /\ sent[w][i][1] = TruncDiv(sent[w][i][2] - origin[w], 1000000 \div 10)
          /\ sent[w][i][1] >= 0
    /\ video_t # None => start = origin[video_t]

\* Two sessions with different time origins have both sent a frame, the
\* later one with a pts that restarts from its own origin.
C10_Witness ==
    \E v, w \in Workers :
        /\ v < w
        /\ origin[v] < origin[w]
        /\ sent[v] # <<>>
        /\ sent[w] # <<>>
        /\ sent[w][1][1] = 0
        /\ sent[w][1][2] > origin[w]

Uniform(img) == \A i, j \in 1..ImgLen : img[i] = img[j]

\* C11: whatever the interleaving of the ingest thread's publishing and the
\* render thread's reading, the image the reader holds after an update is
\* the initial blank image or one published frame in full, never pixels of
\* two frames: all of a copy happens with the lock held by the writer and
\* all of a read with the lock held by the reader.
C11_NoTornImage ==
    /\ rpc = "update" => Uniform(texture) /\ texture[1] \in 0..nread
    /\ rpc = "read" =>
          /\ Uniform(pixels)
          /\ \A i \in 1..read_at : texture[i] = pixels[i]
    /\ ~(pc = "copy" /\ rpc = "read")

\* The reader holds the first frame in full while the writer is halfway
\* through copying the second into the image.
C11_Witness ==
    /\ rpc = "update"
    /\ texture[1] = 1
    /\ pc = "copy"
    /\ nread = 2
    /\ copy_at = 1
    /\ ~Uniform(pixels)

\* The session's worker has panicked while the supervisor still holds the
\* Sender of its channel.
DeadFed == video_t # None /\ wpc[video_t] = "dead"

C14_IngestNeverWaits ==
    /\ [](/\ pc = "publish" => ENABLED Publish
          /\ pc = "poll" => ENABLED Poll
          /\ pc = "record" => ENABLED Record)
    /\ [][/\ Handles("Stop") /\ video_t # None =>
                /\ wpc' = wpc
                /\ rec_format' = rec_format
                /\ video_t' = None
                /\ pc' = "record"
          /\ pc = "record" /\ pc' = "next" /\ video_t # None =>
                /\ wpc' = wpc
                /\ rec_format' = rec_format
                /\ ReceiverAlive(video_t) =>
                      /\ Len(msgs'[video_t]) = Len(msgs[video_t]) + 1
                      /\ Last(msgs'[video_t]).type = "Packet"]_vars

\* Stop has just been handled while the session's worker has not even
\* finished its setup and has two frames and the Close waiting.
C14_Witness ==
    /\ pc = "record"
    /\ msg.type = "Stop"
    /\ \E w \in Workers :
          /\ wpc[w] = "setup"
          /\ Len(msgs[w]) = 3
          /\ Last(msgs[w]) = CloseMsg

\* C15: when the source cannot be reached, has no video stream or has no
\* decoder, the caller of start_video_stream gets an error value and no
\* handle to an image that no pipeline will ever write.
C15_OpenFailureReported == pc = "panic_open" => caller = "error"

\* C16: a packet without an embedded timestamp never ends the ingest loop,
\* neither in the iteration that handles a Start nor in one that records:
\* after its frame is published the iteration is completed, and while
\* recording the frame is sent with the pts taken from the clock.
C16_MissingPtsKeepsLoop ==
    [][packet = NoPts /\ pc \in {"poll", "record"} /\ pc' # pc =>
          /\ pc' \in {"record", "next"}
          /\ pc = "record" /\ video_t # None =>
                /\ Len(sent'[video_t]) = Len(sent[video_t]) + 1
                /\ Last(sent'[video_t])[1] = TruncDiv(now' - start, sleep)]_vars

\* C17: the commands try_recv has returned, followed by those still in the
\* channel, are the commands the UI sent, in the order sent: as many as
\* were sent, a Start in the k-th place being the k-th command sent (it
\* names file k); a command is handled when it is returned, so none is
\* skipped, handled twice or handled before an older one.
C17_CommandsInOrder ==
    LET all == handled \o record_r
    IN /\ Len(all) = ncmds
       /\ \A i \in 1..Len(all) :
             IF all[i].type = "Start" THEN all[i].path = i ELSE all[i] = StopMsg
       /\ pc \in {"record", "panic_start_pts"} /\ msg # NoMsg =>
             handled # <<>> /\ msg = Last(handled)

\* Start, Stop and Start again were sent and have all three been handled.
C17_Witness ==
    /\ Len(handled) = 3
    /\ handled[1].type = "Start"
    /\ handled[2].type = "Stop"
    /\ handled[3].type = "Start"
    /\ spawned = 2

\* C18: every iteration polls the control channel once, between the
\* publishing of its frame and its recording branch; the poll never waits,
\* takes at most one command out of the channel, and when the channel is
\* empty leaves the supervisor and the workers as they were.
C18_OnePollPerIteration ==
    /\ [](/\ pc = "poll" => ENABLED Poll
          /\ Len(handled) <= IF pc \in {"publish", "poll", "panic_decode"}
                             THEN nread - 1 ELSE nread)
    /\ [][/\ pc' = "poll" /\ pc # "poll" => pc = "publish"
          /\ pc = "poll" /\ pc' # pc =>
                /\ pc' \in {"record", "panic_start_pts"}
                /\ Len(record_r') >= Len(record_r) - 1
                /\ Len(handled') + Len(record_r') = Len(handled) + Len(record_r)
          /\ pc = "record" /\ pc' # pc => pc' \in {"next", "panic_record_pts"}
          /\ pc = "next" /\ pc' # pc => pc' = "done" \/ nread' = nread + 1
          /\ pc = "poll" /\ pc' # pc /\ record_r = <<>> =>
                /\ pc' = "record"
                /\ msg' = NoMsg
                /\ handled' = handled
                /\ video_t' = video_t
                /\ start' = start
                /\ spawned' = spawned
                /\ wpc' = wpc
                /\ msgs' = msgs
                /\ tx_alive' = tx_alive]_vars

\* The poll of the first iteration has taken one of three waiting commands
\* and left the two others in the channel.
C18_Witness ==
    /\ pc = "record"
    /\ nread = 1
    /\ Len(handled) = 1
    /\ msg = handled[1]
    /\ Len(record_r) = 2

\* C19: when scaling the decoded frame fails, the preview image is not
\* written in that iteration: it holds afterwards what it held before, and
\* the loop goes on to poll and to the next packet.
C19_ScaleFailureKeepsImage ==
    [][pc = "publish" /\ pc' # pc /\ faults' > faults =>
          /\ rgba_img' = rgba_img
          /\ pixels' = pixels
          /\ pc' = "poll"]_vars

\* The step in which worker w takes a frame from its channel.
TakesFrame(w) ==
    /\ wpc[w] = "loop"
    /\ msgs[w] # <<>>
    /\ Head(msgs[w]).type = "Packet"
    /\ msgs'[w] = Tail(msgs[w])

\* C20: a frame whose conversion or whose encoding fails is dropped and the
\* worker stays in its receive loop: whatever is handed to the encoder for
\* a received frame is the conversion of that frame, and nothing goes into
\* the container unless the encoder took it.
C20_FailedFrameDropped ==
    [][\A w \in Workers :
          TakesFrame(w) =>
              /\ wpc'[w] = "loop"
              /\ encoded'[w] # encoded[w] =>
                    Last(encoded'[w])[3] = Head(msgs[w]).frame
              /\ rec_format'[w] # rec_format[w] => encoded'[w] # encoded[w]]_vars

\* C21: the frame channel to a worker is bounded and drops its oldest frame
\* when full, so that the frames queued for a worker never exceed a fixed
\* capacity, however many packets the source delivers while the worker is
\* behind (here: never all the frames of as many iterations as the source
\* has packets).
C21_FrameQueueBounded ==
    \A w \in Workers : Len(QueuedFrames(w)) <= MaxPackets - 1

\* C22: only packets of the first video stream are handed to the decoder:
\* a packet of another elementary stream is neither decoded nor published
\* nor recorded, the loop goes straight on to the next packet.
C22_OnlyVideoStreamDecoded ==
    stream = OtherStream =>
        pc \notin {"panic_decode", "publish", "poll", "record",
                   "panic_start_pts", "panic_record_pts"}

\* C23: when an encode call succeeds without producing a packet, nothing is
\* written for that input: the container gets a packet from the receive
\* loop only when the encoder filled one.
C23_NoPacketNothingWritten ==
    \A w \in Workers : \A i \in 1..Len(rec_format[w]) :
        rec_format[w][i] # "empty_packet"

\* All commands sent to the stream so far, oldest first.
AllSent == handled \o record_r

\* C24: whatever the clicks on the Start/Pause and Reset buttons, the panel
\* never sends Start twice without a Stop in between, and whenever it shows
\* the mission as paused the last command it sent is not a Start, so that
\* no session it started is left open.
C24_PanelStartStopAlternate ==
    /\ \A i \in 1..(Len(AllSent) - 1) :
          AllSent[i].type = "Start" => AllSent[i + 1].type = "Stop"
    /\ mission_time = "Paused" /\ AllSent # <<>> => Last(AllSent).type = "Stop"

\* The numbers in the names carried by the Starts sent so far in this run:
\* vid_num counts them from 0 in steps of one.
UsedPaths ==
    0 .. ((IF nstarted < VidNumRange THEN nstarted ELSE VidNumRange) - 1)

\* C29: every Start the panel sends to the stream carries a path that no
\* earlier Start of the same run carried.
C29_StartPathsDistinct ==
    [][nstarted' = nstarted + 1 => Last(record_r').path \notin UsedPaths]_vars

\* C25: the step that ends an iteration sends the iteration's frame to a
\* worker exactly when a session is open after the iteration's command was
\* handled, and then to that session's worker: the iteration that handled
\* Start sends to the new worker, the one that handled Stop sends nothing,
\* and nothing is sent to a worker whose session was closed.
C25_FrameSentIffRecording ==
    [][pc = "record" /\ pc' # "record" =>
          /\ \A w \in Workers :
                Len(sent'[w]) = Len(sent[w]) + (IF w = video_t THEN 1 ELSE 0)
          /\ msg.type = "Stop" => sent' = sent
          /\ \A w \in Workers : ~tx_alive[w] => sent'[w] = sent[w]]_vars

SomeWorkerDied == \E w \in Workers : wpc[w] = "dead"

StopQueued == \E i \in 1..Len(record_r) : record_r[i].type = "Stop"

\* C26: when the source keeps delivering packets or ends, a Stop that
\* waits in the control channel while a session is open leads to that
\* session's worker writing the trailer and ending, unless the worker could
\* not open its output; and every command is taken out of the channel by
\* an iteration of its own, which a packet of its own started.
C26_StopLeadsToTrailer ==
    /\ \A w \in Workers :
          (video_t = w /\ StopQueued /\ Alive(w))
              ~> \/ wpc[w] = "done" /\ Last(rec_format[w]) = "trailer"
                 \/ wpc[w] = "dead"
    /\ [][handled' # handled =>
             /\ Len(handled') = Len(handled) + 1
             /\ Len(handled') <= nread
             /\ pc = "poll"]_vars

\* Start and Stop have each been taken by an iteration of its own, and the
\* session's worker has encoded the frame sent to it and written the
\* trailer after Close.
C26_Witness ==
    /\ Len(handled) = 2
    /\ handled[2].type = "Stop"
    /\ nread = 2
    /\ video_t = None
    /\ wpc[1] = "done"
    /\ encoded[1] # <<>>
    /\ Last(rec_format[1]) = "trailer"

\* C28: in an iteration whose packet gave the decoder no frame to hand out
\* the preview image is left as it was and nothing is sent to the recording
\* worker.
C28_NoFrameNoPublish ==
    [][(pc = "publish" \/ pc = "poll" \/ pc = "record") /\ input_frame = Garbage =>
          /\ rgba_img' = rgba_img
          /\ sent' = sent]_vars

====
